---- MODULE Spec2Model ----
(***************************************************************************)
(* Model of findhorizon.py: the trappedsurface object (find_r0,            *)
(* solve_given_r0, convert_to_cartesian) and the two-body helper           *)
(* FindHorizonBinarySymmetric.                                             *)
(*                                                                         *)
(* Angles are IEEE doubles.  A double x that arises in the program is      *)
(* written as the pair [k, e] meaning  x = k * (np.pi / 100) + e * u  with *)
(* np.pi the double nearest to pi and u = 2^-57 / 100, so that every       *)
(* addition and subtraction of the program is rounded exactly as the       *)
(* hardware rounds it (round to nearest, ties to even).                    *)
(***************************************************************************)
EXTENDS Integers, Sequences, FiniteSets, TLC

VARIABLES reflection_symmetric, defined, r0, theta, H, x, last, scan

vars == <<reflection_symmetric, defined, r0, theta, H, x, last, scan>>

(***************************************************************************)
(* Bounds of the model.                                                    *)
(***************************************************************************)
MaxObjective == 2     \* finite objective values are -MaxObjective..MaxObjective
MaxFailStep == 1      \* the integrator may fail at its 1st..MaxFailStep-th step

(***************************************************************************)
(* Double-precision arithmetic on the angles.                              *)
(***************************************************************************)
PiSteps == 100        \* np.pi = 100 * (np.pi / 100)
UlpUnit == 100        \* 2^-57 (the ulp of np.pi / 100.0) in units of u
PiStepMod == 2560     \* (np.pi / 100 in units of u) modulo 25600
dthetaDev == 40       \* fl(np.pi / 100.0) - np.pi / 100, in units of u
EpsDev == 14412800    \* fl(np.pi / 2.0 + 1e-12) - np.pi / 2, in units of u

Float(k, e) == [k |-> k, e |-> e]

Pi == Float(PiSteps, 0)
HalfPi == Float(PiSteps \div 2, 0)
HalfPiPlusEps == Float(PiSteps \div 2, EpsDev)
Zero == Float(0, 0)
dtheta == Float(1, dthetaDev)

\* k * (np.pi / 100) lies in [2^(j-5), 2^(j-4)) exactly when 2^j <= k < 2^(j+1)
Ulp(k) ==
    IF k < 2 THEN UlpUnit
    ELSE IF k < 4 THEN 2 * UlpUnit
    ELSE IF k < 8 THEN 4 * UlpUnit
    ELSE IF k < 16 THEN 8 * UlpUnit
    ELSE IF k < 32 THEN 16 * UlpUnit
    ELSE IF k < 64 THEN 32 * UlpUnit
    ELSE IF k < 128 THEN 64 * UlpUnit
    ELSE 128 * UlpUnit

\* round the real number k * (np.pi / 100) + e * u to the nearest double
RoundNearest(k, e) ==
    IF k = 0 THEN Float(0, e)
    ELSE LET U == Ulp(k)
             m == (k * PiStepMod + e) % (2 * U)
             r == m % U
             down == e - r
             up == down + U
         IN  IF 2 * r < U THEN Float(k, down)
             ELSE IF 2 * r > U THEN Float(k, up)
             ELSE IF m = r THEN Float(k, down)
             ELSE Float(k, up)

FAdd(a, b) == RoundNearest(a.k + b.k, a.e + b.e)
FSub(a, b) == RoundNearest(a.k - b.k, a.e - b.e)
FLess(a, b) == a.k < b.k \/ (a.k = b.k /\ a.e < b.e)
FLeq(a, b) == a = b \/ FLess(a, b)

flipud(s) == [i \in 1..Len(s) |-> s[Len(s) + 1 - i]]

(***************************************************************************)
(* Radii.  A radius is either a number the caller supplied or the point a  *)
(* root solver returned for a given bracket or guess.                      *)
(***************************************************************************)
Given(a) == [a |-> a, b |-> a, i |-> 0, kind |-> "given"]
BrentRoot(a, b) == [a |-> a, b |-> b, i |-> 0, kind |-> "brentq"]
HybrRoot(guess, i) ==
    [a |-> guess[1], b |-> guess[2], i |-> i, kind |-> "root"]
HybrIterate(guess, i) ==
    [a |-> guess[1], b |-> guess[2], i |-> i, kind |-> "iterate"]

(***************************************************************************)
(* The scipy ode solver object.  y is the state (h, h') the integrator     *)
(* holds: the result of n steps started from (r0, 0.0) at the angle        *)
(* `start`; ok is FALSE when y was left by a failed step.                  *)
(***************************************************************************)
State(r, start, n, ok) == [r0 |-> r, start |-> start, n |-> n, ok |-> ok]

set_initial_value(r, t0) ==
    [t |-> t0, y |-> State(r, t0.k, 0, TRUE), successful |-> TRUE]

\* solver.integrate(target): the failAt-th step fails (0: none does); a
\* failed step stops short of the target and leaves a bad state behind.
integrate(solver, target, failAt) ==
    LET n == solver.y.n + 1
    IN  IF n = failAt
        THEN [t |-> solver.t,
              y |-> State(solver.y.r0, solver.y.start, n, FALSE),
              successful |-> FALSE]
        ELSE [t |-> target,
              y |-> State(solver.y.r0, solver.y.start, n, TRUE),
              successful |-> TRUE]

\* while solver1.successful() and solver1.t < np.pi / 2.0
\* (theta1 and H1 are appended to together and stay equally long)
RECURSIVE ForwardLoop(_, _, _)
ForwardLoop(solver, traj, failAt) ==
    IF Len(traj.theta) = Len(traj.H) /\ solver.successful /\ FLess(solver.t, HalfPi)
    THEN LET s == integrate(solver, FAdd(solver.t, dtheta), failAt)
         IN  ForwardLoop(s, [theta |-> Append(traj.theta, s.t),
                             H |-> Append(traj.H, s.y)], failAt)
    ELSE traj

\* while solver2.successful() and solver2.t >= np.pi / 2.0 + 1e-12
\* (theta2 and H2 are appended to together and stay equally long)
RECURSIVE BackwardLoop(_, _, _)
BackwardLoop(solver, traj, failAt) ==
    IF Len(traj.theta) = Len(traj.H) /\ solver.successful /\ FLeq(HalfPiPlusEps, solver.t)
    THEN LET s == integrate(solver, FSub(solver.t, dtheta), failAt)
         IN  BackwardLoop(s, [theta |-> Append(traj.theta, s.t),
                              H |-> Append(traj.H, s.y)], failAt)
    ELSE traj

\* faulty variant: the sample at theta = 0 is not stored
Trajectory1_without_start(r, failAt) ==
    ForwardLoop(set_initial_value(r, Zero), [theta |-> <<>>, H |-> <<>>], failAt)

\* theta1 / H1: the trajectory from theta = 0
Trajectory1(r, failAt) ==
    LET solver1 == set_initial_value(r, Zero)
    IN  ForwardLoop(solver1, [theta |-> <<solver1.t>>, H |-> <<solver1.y>>],
                    failAt)

\* theta2 / H2: the trajectory from theta = pi
Trajectory2(r, failAt) ==
    LET solver2 == set_initial_value(r, Pi)
    IN  BackwardLoop(solver2, [theta |-> <<solver2.t>>, H |-> <<solver2.y>>],
                     failAt)

\* faulty variant: the full_horizon flag is ignored
GeneralMode_ignoring_flag(refl, full_horizon) == ~refl

GeneralMode(refl, full_horizon) == full_horizon \/ ~refl

\* the half 0 <= theta <= pi in the general case (lines 386-388)
HalfGeneral(t1, t2) ==
    [theta |-> t1.theta \o flipud(t2.theta), H |-> t1.H \o flipud(t2.H)]

\* faulty variant: the mirrored quarter is not reversed
HalfSymmetric_without_flip(t1) ==
    [theta |-> t1.theta \o
               flipud([i \in 1..Len(t1.theta) |-> FSub(Pi, t1.theta[i])]),
     H |-> t1.H \o t1.H]

\* the half 0 <= theta <= pi in the symmetric case (lines 404-406)
HalfSymmetric(t1) ==
    [theta |-> t1.theta \o
               flipud([i \in 1..Len(t1.theta) |-> FSub(Pi, t1.theta[i])]),
     H |-> t1.H \o flipud(t1.H)]

\* faulty variant: the second half is not shifted by pi
FillRemaining_without_shift(half) ==
    [theta |-> half.theta \o half.theta, H |-> half.H \o flipud(half.H)]

\* fill the remaining angles (lines 410-411)
FillRemaining(half) ==
    [theta |-> half.theta \o
               [i \in 1..Len(half.theta) |-> FAdd(half.theta[i], Pi)],
     H |-> half.H \o flipud(half.H)]

(***************************************************************************)
(* solve_given_r0 as a function of the object and of what the integrator   *)
(* does: fail1 / fail2 are the steps at which solver1 / solver2 fail (0:   *)
(* never).  The result is the error raised, if any, and the new theta, H.  *)
(***************************************************************************)
solve_given_r0(self, full_horizon, fail1, fail2) ==
    LET none == [err |-> "AttributeError", theta |-> self.theta, H |-> self.H,
                 set |-> FALSE]
        idx == [none EXCEPT !.err = "IndexError"]
    IN  IF "r0" \notin self.defined THEN none
        ELSE IF Len(self.r0) < 1 THEN idx
        ELSE IF GeneralMode(self.reflection_symmetric, full_horizon)
        THEN IF Len(self.r0) < 2 THEN idx
             ELSE LET full == FillRemaining(
                                HalfGeneral(Trajectory1(self.r0[1], fail1),
                                            Trajectory2(self.r0[2], fail2)))
                  IN  [err |-> "none", theta |-> full.theta, H |-> full.H,
                       set |-> TRUE]
        ELSE LET full == FillRemaining(
                           HalfSymmetric(Trajectory1(self.r0[1], fail1)))
             IN  [err |-> "none", theta |-> full.theta, H |-> full.H,
                  set |-> TRUE]

(***************************************************************************)
(* The shooting objectives and the scipy root solvers.  The value of an    *)
(* objective is a finite number or NaN; what a solver does with it is the  *)
(* solver's contract.                                                      *)
(***************************************************************************)
NaN == MaxObjective + 1
ObjectiveValues == (-MaxObjective..MaxObjective) \cup {NaN}
Signs == {-1, 0, 1, NaN}
Guesses == {<<1, 2>>}
SolverOutcomes == {"converges", "RuntimeError", "ValueError"}

\* brentq(f, a, b) with fa = f(a), fb = f(b): ValueError unless the signs
\* differ, an end of the bracket when the objective vanishes there,
\* RuntimeError when the iteration does not converge.  With a NaN value
\* the outcome depends on the scipy version: any of `outcome`.
brentq(fa, fb, a, b, outcome) ==
    IF fa = NaN \/ fb = NaN
    THEN [err |-> IF outcome = "converges" THEN "none" ELSE outcome,
          x |-> BrentRoot(a, b)]
    ELSE IF fa * fb > 0 THEN [err |-> "ValueError", x |-> BrentRoot(a, b)]
    ELSE IF fa = 0 THEN [err |-> "none", x |-> Given(a)]
    ELSE IF fb = 0 THEN [err |-> "none", x |-> Given(b)]
    ELSE IF outcome = "converges" THEN [err |-> "none", x |-> BrentRoot(a, b)]
    ELSE [err |-> "RuntimeError", x |-> BrentRoot(a, b)]

\* root(F, guess, tol=1e-12): never raises; success tells whether the
\* tolerance was met and x is the root or the last iterate.
root(guess, outcome) ==
    [success |-> outcome = "converges",
     x |-> IF outcome = "converges"
           THEN <<HybrRoot(guess, 1), HybrRoot(guess, 2)>>
           ELSE <<HybrIterate(guess, 1), HybrIterate(guess, 2)>>]

\* faulty variant: a failed bracketed solve falls back to the lower end of the bracket
find_r0_with_fallback(self, input_guess, full_horizon, fa, fb, outcome) ==
    IF full_horizon \/ ~self.reflection_symmetric
    THEN [err |-> "none", r0 |-> root(input_guess, outcome).x,
          solver |-> "root", success |-> root(input_guess, outcome).success]
    ELSE LET sol == brentq(fa, fb, input_guess[1], input_guess[2], outcome)
         IN  [err |-> "none",
              r0 |-> IF sol.err = "none" THEN <<sol.x>>
                     ELSE <<Given(input_guess[1])>>,
              solver |-> "brentq", success |-> sol.err = "none"]

\* faulty variant: r0 is not cleared first, a failed solve keeps the earlier radius
find_r0_without_reset(self, input_guess, full_horizon, fa, fb, outcome) ==
    IF GeneralMode(self.reflection_symmetric, full_horizon)
    THEN LET sol == root(input_guess, outcome)
         IN  [err |-> "none", r0 |-> sol.x, solver |-> "root",
              success |-> sol.success]
    ELSE LET sol == brentq(fa, fb, input_guess[1], input_guess[2], outcome)
         IN  IF sol.err = "none"
             THEN [err |-> "none", r0 |-> <<sol.x>>, solver |-> "brentq",
                   success |-> TRUE]
             ELSE [err |-> sol.err, r0 |-> self.r0, solver |-> "brentq",
                   success |-> FALSE]

(***************************************************************************)
(* find_r0 as a function of the object, its arguments and what the         *)
(* objective and the solver do.  Result: the error raised, the new r0, and *)
(* the solver that was called.                                             *)
(***************************************************************************)
find_r0(self, input_guess, full_horizon, fa, fb, outcome) ==
    IF GeneralMode(self.reflection_symmetric, full_horizon)
    THEN LET sol == root(input_guess, outcome)
         IN  [err |-> "none", r0 |-> sol.x, solver |-> "root",
              success |-> sol.success]
    ELSE LET sol == brentq(fa, fb, input_guess[1], input_guess[2], outcome)
         IN  IF sol.err = "none"
             THEN [err |-> "none", r0 |-> <<sol.x>>, solver |-> "brentq",
                   success |-> TRUE]
             ELSE [err |-> sol.err, r0 |-> <<>>, solver |-> "brentq",
                   success |-> FALSE]

(***************************************************************************)
(* convert_to_cartesian: one cartesian point per stored sample.            *)
(***************************************************************************)
convert_to_cartesian(self) ==
    IF "H" \notin self.defined \/ "theta" \notin self.defined
    THEN [err |-> "AttributeError", x |-> self.x]
    ELSE [err |-> "none", x |-> Len(self.theta)]

(***************************************************************************)
(* FindHorizonBinarySymmetric.  Radii are measured in units of             *)
(* r0_empirical / (100 * (NumCandidates - 1)), which makes the two ends of *)
(* the first bracket and all scanned radii integers.                       *)
(***************************************************************************)
NumCandidates == 50       \* np.linspace(start, stop) returns 50 points
GuessLoPercent == 99      \* 0.99 * r0_empirical
GuessHiPercent == 101     \* 1.01 * r0_empirical
ScanLoPercent == 95       \* 0.95 * r0_empirical
ScanHiPercent == 105      \* 1.05 * r0_empirical

Percent(n) == n * (NumCandidates - 1)

\* the i-th point (from 1) of np.linspace(start, stop)
linspace(start, stop, i) ==
    start + ((i - 1) * (stop - start)) \div (NumCandidates - 1)

ScanRadius(i) == linspace(Percent(ScanLoPercent), Percent(ScanHiPercent), i)

\* ts.shooting_function on the scanned radii: the value a at the p-th
\* radius, b at the last one and c at all the others
Phi(prof) ==
    [i \in 1..NumCandidates |->
        IF i = prof.p THEN prof.a
        ELSE IF i = NumCandidates THEN prof.b
        ELSE prof.c]

\* faulty variant: the least magnitude instead of the least value
argmin_of_magnitude(phi) ==
    CHOOSE i \in DOMAIN phi :
        LET mag(v) == IF v < 0 THEN -v ELSE v
        IN  /\ \A j \in DOMAIN phi : mag(phi[i]) <= mag(phi[j])
            /\ \A j \in 1..(i - 1) : mag(phi[j]) > mag(phi[i])

\* np.argmin: the first index of a NaN if there is one, else the first
\* index of the least value
FirstIndex(phi, v) ==
    CHOOSE i \in DOMAIN phi : phi[i] = v /\ \A j \in 1..(i - 1) : phi[j] # v

argmin(phi) ==
    LET values == {phi[i] : i \in DOMAIN phi}
    IN  IF NaN \in values THEN FirstIndex(phi, NaN)
        ELSE FirstIndex(phi, CHOOSE v \in values : \A w \in values : v <= w)

\* faulty variant: except Exception
Caught_any(err) == err # "none"

\* except ValueError
Caught(err) == err = "ValueError"

NewSurface(refl) ==
    [reflection_symmetric |-> refl, defined |-> {}, r0 |-> <<>>,
     theta |-> <<>>, H |-> <<>>, x |-> 0]

initial_guess == <<Percent(GuessLoPercent), Percent(GuessHiPercent)>>

\* everything ts.find_r0(initial_guess) can do on the new surface, over the
\* values of the objective at the two ends of the bracket and over what
\* brentq does with them
FirstSolves ==
    {find_r0(NewSurface(TRUE), initial_guess, FALSE, fLo, fHi, outcome1) :
        fLo \in Signs, fHi \in Signs, outcome1 \in SolverOutcomes}

\* first: what ts.find_r0(initial_guess) did; outcome2: what brentq does in
\* the second solve; fail1: the step at which the integrator fails in
\* solve_given_r0.
FindHorizonBinarySymmetric(prof, first, outcome2, fail1) ==
    LET ts == NewSurface(TRUE)
        scanned == Caught(first.err)
        phi == Phi(prof)
        chosen == argmin(phi)
        retry_guess == <<ScanRadius(chosen), ScanRadius(NumCandidates)>>
        second == find_r0(ts, retry_guess, FALSE, phi[chosen],
                          phi[NumCandidates], outcome2)
        found == IF scanned THEN second ELSE first
        ts1 == [ts EXCEPT !.r0 = found.r0, !.defined = {"r0"}]
        solved == solve_given_r0(ts1, FALSE, fail1, 0)
        ts2 == [ts1 EXCEPT !.theta = solved.theta, !.H = solved.H,
                           !.defined = {"r0", "theta", "H"}]
        ts3 == [ts2 EXCEPT !.x = convert_to_cartesian(ts2).x,
                           !.defined = {"r0", "theta", "H", "x"}]
    IN  [err |-> found.err,
         ts |-> IF found.err = "none" THEN ts3 ELSE ts1,
         ran |-> scanned,
         finds |-> IF scanned THEN 2 ELSE 1,
         first |-> first.err,
         chosen |-> IF scanned THEN chosen ELSE 0,
         bracket |-> IF scanned THEN retry_guess ELSE initial_guess,
         returned |-> found.err = "none"]

(***************************************************************************)
(* State: one trappedsurface object.  `defined` is the set of attributes   *)
(* assigned so far; `last` records the last call and how it ended;         *)
(* `scan` records what FindHorizonBinarySymmetric did.                     *)
(***************************************************************************)
Self == [reflection_symmetric |-> reflection_symmetric, defined |-> defined,
         r0 |-> r0, theta |-> theta, H |-> H, x |-> x]

Call(op, err) ==
    [solver |-> "none", full_horizon |-> FALSE, err |-> err, fa |-> 0,
     fb |-> 0, success |-> err = "none", op |-> op]

\* p, a, b, c describe the objective on the scanned radii (see Phi)
NoScan == [a |-> 0, b |-> 0, p |-> 0, c |-> 0, first |-> "none",
           chosen |-> 0, ran |-> FALSE, finds |-> 0, bracket |-> <<0, 0>>,
           returned |-> FALSE, called |-> FALSE]

Created(refl) ==
    /\ reflection_symmetric = refl
    /\ defined = {}
    /\ r0 = <<>>
    /\ theta = <<>>
    /\ H = <<>>
    /\ x = 0
    /\ last = Call("init", "none")
    /\ scan = NoScan

Init == \E refl \in BOOLEAN : Created(refl)

\* trappedsurface(spacetime(..., reflection_symmetric)): a fresh object
Construct ==
    \E refl \in BOOLEAN :
        /\ reflection_symmetric' = refl
        /\ defined' = {}
        /\ r0' = <<>>
        /\ theta' = <<>>
        /\ H' = <<>>
        /\ x' = 0
        /\ last' = Call("init", "none")
        /\ scan' = NoScan

FindR0 ==
    \E input_guess \in Guesses, full_horizon \in BOOLEAN, fa, fb \in Signs,
       outcome \in SolverOutcomes :
        \E res \in {find_r0(Self, input_guess, full_horizon, fa, fb, outcome)} :
            /\ r0' = res.r0
            /\ defined' = defined \cup {"r0"}
            /\ last' = [Call("find_r0", res.err) EXCEPT
                          !.full_horizon = full_horizon,
                          !.solver = res.solver,
                          !.fa = IF res.solver = "brentq" THEN fa ELSE 0,
                          !.fb = IF res.solver = "brentq" THEN fb ELSE 0,
                          !.success = res.success]
            /\ UNCHANGED <<reflection_symmetric, theta, H, x, scan>>

SolveGivenR0 ==
    \E full_horizon \in BOOLEAN, fail1, fail2 \in 0..MaxFailStep :
        \E res \in {solve_given_r0(Self, full_horizon, fail1, fail2)} :
            /\ theta' = res.theta
            /\ H' = res.H
            /\ defined' = IF res.set THEN defined \cup {"theta", "H"} ELSE defined
            /\ last' = [Call("solve_given_r0", res.err) EXCEPT
                          !.full_horizon = full_horizon]
            /\ UNCHANGED <<reflection_symmetric, r0, x, scan>>

ConvertToCartesian ==
    \E res \in {convert_to_cartesian(Self)} :
        /\ x' = res.x
        /\ defined' = IF res.err = "none" THEN defined \cup {"x"} ELSE defined
        /\ last' = Call("convert_to_cartesian", res.err)
        /\ UNCHANGED <<reflection_symmetric, r0, theta, H, scan>>

Next == Construct \/ FindR0 \/ SolveGivenR0 \/ ConvertToCartesian

Spec == Init /\ [][Next]_vars

(***************************************************************************)
(* One call of FindHorizonBinarySymmetric(z, mass).  The function builds   *)
(* its own spacetime and surface and keeps nothing between calls; z and    *)
(* mass fix the objective, which the initial state draws.                  *)
(***************************************************************************)
ScanProfiles ==
    [p : 1..NumCandidates, a : ObjectiveValues, b : {-1, 1, NaN}, c : {-1, 1}]

InitBinary ==
    \E prof \in ScanProfiles :
          /\ reflection_symmetric = TRUE
          /\ defined = {}
          /\ r0 = <<>>
          /\ theta = <<>>
          /\ H = <<>>
          /\ x = 0
          /\ last = Call("init", "none")
          /\ scan = [NoScan EXCEPT !.p = prof.p, !.a = prof.a,
                                   !.b = prof.b, !.c = prof.c]

Returned(res) ==
    /\ reflection_symmetric' = res.ts.reflection_symmetric
    /\ defined' = res.ts.defined
    /\ r0' = res.ts.r0
    /\ theta' = res.ts.theta
    /\ H' = res.ts.H
    /\ x' = res.ts.x
    /\ last' = Call("FindHorizonBinarySymmetric", res.err)
    /\ scan' = [scan EXCEPT !.called = TRUE, !.ran = res.ran,
                            !.finds = res.finds, !.first = res.first,
                            !.chosen = res.chosen, !.bracket = res.bracket,
                            !.returned = res.returned]

CallFindHorizonBinarySymmetric ==
    /\ ~scan.called
    /\ \E first \in FirstSolves, outcome2 \in SolverOutcomes,
          fail1 \in 0..MaxFailStep :
          \E res \in {FindHorizonBinarySymmetric(
                         [p |-> scan.p, a |-> scan.a, b |-> scan.b, c |-> scan.c],
                         first, outcome2, fail1)} :
              Returned(res)

NextBinary == CallFindHorizonBinarySymmetric

SpecBinary == InitBinary /\ [][NextBinary]_vars

(***************************************************************************)
(* Properties of the trappedsurface object, checked under Spec.            *)
(***************************************************************************)
TwoPi == FAdd(Pi, Pi)
SymmetricCall == reflection_symmetric /\ ~last.full_horizon
AllStepsSuccessful == \A i \in 1..Len(H) : H[i].ok
SolvedNormally == last.op = "solve_given_r0" /\ last.err = "none"
Abs(n) == IF n < 0 THEN -n ELSE n

\* C1: in symmetric mode a bracket whose two objective values have the same
\* (non-zero) sign makes find_r0 end with the solver's ValueError, and r0
\* holds no radius afterwards.
C1_NoSignChangeIsAnError ==
    (/\ last.op = "find_r0"
     /\ SymmetricCall
     /\ last.fa # NaN /\ last.fb # NaN
     /\ last.fa * last.fb > 0)
    => (last.err = "ValueError" /\ r0 = <<>>)

C1_Witness ==
    /\ last.op = "find_r0"
    /\ SymmetricCall
    /\ last.fa = 1 /\ last.fb = 1
    /\ last.err = "ValueError"
    /\ r0 = <<>>

\* C2: in general mode, whenever the multidimensional solver ends without
\* meeting its tolerance, find_r0 reports a failure and does not leave the
\* last iterate in r0.
C2_NonConvergenceIsReported ==
    (/\ last.op = "find_r0"
     /\ ~SymmetricCall
     /\ ~last.success)
    => (last.err # "none" /\ \A i \in 1..Len(r0) : r0[i].kind # "iterate")

\* C3: when solve_given_r0 completes normally, no stored sample is the
\* result of a failed integration step and no trajectory was cut short.
C3_IntegrationFailureIsReported ==
    SolvedNormally =>
        (AllStepsSuccessful /\ Len(theta) = 4 * (PiSteps \div 2 + 1))

\* C4: find_r0 calls brentq exactly when the spacetime is reflection
\* symmetric and full_horizon is false, and root otherwise; on normal
\* completion r0 holds one radius after brentq and two after root.
C4_ModeSelection ==
    last.op = "find_r0" =>
        /\ (last.solver = "brentq") <=> (reflection_symmetric /\ ~last.full_horizon)
        /\ (last.solver = "root") <=> (~reflection_symmetric \/ last.full_horizon)
        /\ last.err = "none" =>
              Len(r0) = IF reflection_symmetric /\ ~last.full_horizon THEN 1 ELSE 2

C4_Witness ==
    /\ last.op = "find_r0"
    /\ last.err = "none"
    /\ reflection_symmetric /\ last.full_horizon
    /\ last.solver = "root"
    /\ Len(r0) = 2

\* C5 as stated: after a solve with every step successful the stored theta
\* sequence is strictly increasing and every theta lies in [0, 2 pi).
C5_StrictlyIncreasingBelowTwoPi ==
    (SolvedNormally /\ AllStepsSuccessful) =>
        /\ \A i \in 1..(Len(theta) - 1) : FLess(theta[i], theta[i + 1])
        /\ \A i \in 1..Len(theta) : FLeq(Zero, theta[i]) /\ FLess(theta[i], TwoPi)

\* C5 amended: the stored theta sequence is strictly increasing inside each
\* of its four quarter segments, the two samples at each quarter junction
\* are both pi / 2 (resp. 3 pi / 2) up to rounding, pi is stored twice in
\* the middle, and every theta lies in [0, 2 pi] with 2 pi stored last.
C5_QuartersIncreaseUpToTwoPi ==
    (SolvedNormally /\ AllStepsSuccessful) =>
        LET n == Len(theta)
            q == n \div 4
        IN  /\ n = 4 * q
            /\ \A i \in 1..(n - 1) : (i % q # 0) => FLess(theta[i], theta[i + 1])
            /\ \A i \in 1..n : FLeq(Zero, theta[i]) /\ FLeq(theta[i], TwoPi)
            /\ theta[1] = Zero /\ theta[n] = TwoPi
            /\ theta[2 * q] = Pi /\ theta[2 * q + 1] = Pi
            /\ \A i \in {q, q + 1} :
                  theta[i].k = HalfPi.k /\ Abs(theta[i].e) < EpsDev
            /\ \A i \in {3 * q, 3 * q + 1} :
                  theta[i].k = HalfPi.k + Pi.k /\ Abs(theta[i].e) < EpsDev

C5_Witness ==
    /\ SolvedNormally /\ AllStepsSuccessful
    /\ ~last.full_horizon /\ reflection_symmetric
    /\ theta[Len(theta) \div 2] = Pi
    /\ theta[Len(theta)] = TwoPi

\* C6: after a symmetric-mode solve with every step successful, two stored
\* samples whose angles are mirror images of each other (theta and
\* pi - theta, pi + theta or 2 pi - theta, up to rounding) hold the same
\* state, hence the same radius h.
Mirrored(s, t) ==
    \/ t.k = Pi.k - s.k
    \/ t.k = Pi.k + s.k
    \/ t.k = TwoPi.k - s.k

C6_ReflectionSymmetry ==
    (SolvedNormally /\ SymmetricCall /\ AllStepsSuccessful) =>
        \A i, j \in 1..Len(theta) :
            Mirrored(theta[i], theta[j]) => H[i] = H[j]

C6_Witness ==
    /\ SolvedNormally /\ SymmetricCall /\ AllStepsSuccessful
    /\ \E i, j \in 1..Len(theta) :
          /\ i < j
          /\ theta[i].k = 1
          /\ theta[j].k = TwoPi.k - 1
          /\ H[i] = H[j]

\* C7 as stated: the number of stored samples is 200 within +-1.
C7_About200Samples ==
    (SolvedNormally /\ AllStepsSuccessful) =>
        Abs(Len(theta) - 2 * PiSteps) <= 1

\* C7 amended: with every step successful solve_given_r0 stores
\* 4 * ((pi / 2) / dtheta + 1) = 204 samples in either mode, because each
\* quarter trajectory contains both of its end points.
C7_204Samples ==
    (SolvedNormally /\ AllStepsSuccessful) =>
        /\ Len(theta) = 4 * (PiSteps \div 2 + 1)
        /\ Len(H) = Len(theta)

C7_Witness ==
    /\ SolvedNormally /\ AllStepsSuccessful
    /\ last.full_horizon
    /\ Len(theta) = 4 * (PiSteps \div 2 + 1)

\* C10: solve_given_r0 completes normally only on radii that a successful
\* find_r0 resolved, and convert_to_cartesian only on an assembled sample
\* sequence; every out-of-order call ends in an error.
C10_Lifecycle ==
    /\ SolvedNormally =>
          /\ "r0" \in defined
          /\ Len(r0) >= 1
          /\ \A i \in 1..Len(r0) : r0[i].kind # "iterate"
    /\ (last.op = "convert_to_cartesian" /\ last.err = "none") =>
          ("H" \in defined /\ "theta" \in defined)

(***************************************************************************)
(* Properties of FindHorizonBinarySymmetric, checked under SpecBinary.     *)
(***************************************************************************)
Scanned == Phi([p |-> scan.p, a |-> scan.a, b |-> scan.b, c |-> scan.c])
UpperEdge == Percent(ScanHiPercent)

\* C8 as stated: the chosen candidate minimises the magnitude of the
\* objective over the scanned radii, and the retry bracket is that
\* candidate with the upper edge of the window.
C8_ChosenMinimisesMagnitude ==
    (scan.ran /\ \A j \in 1..NumCandidates : Scanned[j] # NaN) =>
        /\ \A j \in 1..NumCandidates :
              Abs(Scanned[scan.chosen]) <= Abs(Scanned[j])
        /\ scan.bracket = <<ScanRadius(scan.chosen), UpperEdge>>

\* C8 amended: the chosen candidate is the first scanned radius at which
\* the objective is NaN if there is one, and otherwise the first one at
\* which the signed value of the objective is least; the retry bracket is
\* that candidate with the last scanned radius, 1.05 * r0_empirical.
C8_ChosenMinimisesValue ==
    scan.ran =>
        /\ scan.chosen \in 1..NumCandidates
        /\ IF \E j \in 1..NumCandidates : Scanned[j] = NaN
           THEN /\ Scanned[scan.chosen] = NaN
                /\ \A j \in 1..(scan.chosen - 1) : Scanned[j] # NaN
           ELSE /\ \A j \in 1..NumCandidates : Scanned[scan.chosen] <= Scanned[j]
                /\ \A j \in 1..(scan.chosen - 1) : Scanned[j] > Scanned[scan.chosen]
        /\ scan.bracket = <<ScanRadius(scan.chosen), UpperEdge>>

C8_Witness ==
    /\ scan.ran
    /\ scan.p > 1 /\ scan.p < NumCandidates
    /\ scan.a = -2 /\ scan.b = 1 /\ scan.c = 1
    /\ scan.chosen = scan.p
    /\ scan.returned

\* C9 as stated: every failure of the first solve, a ValueError as well as
\* a RuntimeError, is followed by the scan and exactly one more find_r0,
\* and a failed second solve ends the call with its error and no surface.
C9_EveryFailureRetried ==
    scan.called =>
        /\ scan.first # "none" => (scan.ran /\ scan.finds = 2)
        /\ last.err # "none" => ~scan.returned

\* C9 amended: a first solve that raises ValueError is followed by the scan
\* and exactly one more find_r0; a first solve that raises RuntimeError (no
\* convergence) ends the call at once, with no scan and no second solve;
\* whenever the last solve made fails, its error ends the call and no
\* surface is returned.
C9_ValueErrorRetriedOnce ==
    scan.called =>
        /\ scan.first = "ValueError" => (scan.ran /\ scan.finds = 2)
        /\ scan.first = "RuntimeError" =>
              (~scan.ran /\ scan.finds = 1 /\ last.err = "RuntimeError"
               /\ ~scan.returned)
        /\ scan.first = "none" => (~scan.ran /\ scan.finds = 1 /\ scan.returned)
        /\ last.err # "none" => (~scan.returned /\ "theta" \notin defined)
        /\ scan.returned <=> last.err = "none"

C9_Witness ==
    /\ scan.called
    /\ scan.first = "ValueError"
    /\ scan.ran /\ scan.finds = 2
    /\ last.err = "ValueError"
    /\ ~scan.returned

\* C11: a find_r0 call that ends in an error leaves r0 empty, whatever r0
\* held before, and leaves theta and H as they were; a solve_given_r0 call
\* that directly follows such a failed find_r0 ends in an error as well and
\* assembles nothing, so the stored samples are still the earlier ones.
C11_FailedFindR0ClearsRadius ==
    [][/\ (last'.op = "find_r0" /\ last'.err # "none")
            => (/\ r0' = <<>>
                /\ theta' = theta
                /\ H' = H
                /\ defined' \ {"r0"} = defined \ {"r0"})
       /\ (/\ last.op = "find_r0" /\ last.err # "none"
           /\ last'.op = "solve_given_r0")
            => (/\ last'.err # "none"
                /\ theta' = theta
                /\ H' = H)]_vars

\* a surface was assembled from an earlier radius, a later find_r0 failed
\* and emptied r0, and the solve_given_r0 after it failed and kept the
\* earlier samples
C11_Witness ==
    /\ last.op = "solve_given_r0"
    /\ last.err = "IndexError"
    /\ "r0" \in defined
    /\ r0 = <<>>
    /\ "theta" \in defined
    /\ Len(theta) = 4 * (PiSteps \div 2 + 1)
    /\ Len(H) = Len(theta)

====
